---- MODULE Spec2Model ----
(***************************************************************************)
(* Explicit-sync shared-image swapchain (StardustXR cme).                  *)
(*                                                                         *)
(* The model covers Swapchain::new, Swapchain::prepare_next_image and the  *)
(* SwapchainFrameHandle operations of src/src/swapchain.rs, together with  *)
(* the two parties the handoff protocol talks to: the GPU queue that runs  *)
(* the work recorded by the caller's submit closure, and the compositor    *)
(* that consumes the DmatexMaterialParam of every submitted frame.         *)
(***************************************************************************)
EXTENDS Integers, Sequences, FiniteSets, TLC

\* ---------------------------------------------------------------- bounds
MaxImages == 3      \* ring sizes 1..MaxImages (IMAGES defaults to 3)
MaxAcquire == 5     \* prepare_next_image is called at most this often
MaxSubmits == 2     \* at most this many handles are waited on or submitted
MaxMemTypes == 2    \* memory types of the physical device
MaxPlanes == 2      \* memory requirements (planes) of one image
MaxEntries == 2     \* entries of one format enumeration

VARIABLES
    IMAGES,       \* const generic of Swapchain: the number of images
    phase,        \* progress of Swapchain::new: creating, signalling, ready, panicked
    images,       \* Swapchain.images: index -> (Dmatex, u64)
    next_image,   \* Swapchain.next_image
    sig_i,        \* loop index of `for image in &images` in Swapchain::new
    timeline,     \* Dmatex.timeline of every image: the set of points given a fence
    handles,      \* every SwapchainFrameHandle handed out, in acquisition order
    pc,           \* where the caller is with each handle
    gpu,          \* state of the GPU work recorded by the submit closure of each handle
    ret,          \* DmatexMaterialParam returned by submit of each handle
    comp,         \* what the compositor is doing with the frame of each handle
    steps,        \* the steps of submit completed so far for each handle
    registered,   \* the dmatex ids of the import_dmatex calls issued, in order
    call          \* one call of a function checked on its own: its input and result

vars == <<IMAGES, phase, images, next_image, sig_i, timeline, handles, pc, gpu, ret, comp, steps,
          registered, call>>

\* No function call is under way.
NoCall == [op |-> "none"]

NoParam == [dmatex_id |-> 0, acquire_point |-> 0, release_point |-> 0]

Slots == 0 .. (IMAGES - 1)
Handles == 1 .. Len(handles)

\* ------------------------------------------------------------- timeline
\* A timeline entry is a point that was given a fence: by a CPU signal
\* (by = "cpu"), or by the import of the sync file of a handle's submit
\* semaphore (by = "gpu", h = the handle), which signals once that GPU work
\* is done.
Entry(p, by, h) == [point |-> p, by |-> by, h |-> h]

EntrySignalled(e) == IF e.by = "cpu" THEN TRUE ELSE gpu[e.h] = "done"

\* TimelineSyncObj: counter semantics, point p is reached once a fence at a
\* point >= p has signalled.
Reached(i, p) == \E e \in timeline[i] : e.point >= p /\ EntrySignalled(e)

\* ---------------------------------------------------------- Swapchain::new
Init ==
    /\ IMAGES \in 1 .. MaxImages
    /\ phase = "creating"
    /\ images = <<>>
    /\ next_image = 0
    /\ sig_i = 0
    /\ timeline = <<>>
    /\ handles = <<>>
    /\ pc = <<>>
    /\ gpu = <<>>
    /\ ret = <<>>
    /\ comp = <<>>
    /\ steps = <<>>
    /\ registered = <<>>
    /\ call = NoCall

NumCreated == Cardinality(DOMAIN images)

\* let dmatex_id = client.generate_id();
GenerateId(i) == i + 1

\* Variant: the image is registered a second time.
RegisterCallsTwice(id) == <<id, id>>

\* Dmatex::new, lines 152-163: import_dmatex is called once, with dmatex_id.
RegisterCalls(id) == <<id>>

\* Dmatex::new for the next element of the array, then `.map(|v| (v, 0))`.
DmatexNew ==
    /\ phase = "creating"
    /\ NumCreated < IMAGES
    /\ LET i == NumCreated IN
        /\ images' = [j \in 0 .. i |->
                        IF j = i THEN [dmatex_id |-> GenerateId(i), previous_release |-> 0]
                                 ELSE images[j]]
        /\ timeline' = [j \in 0 .. i |-> IF j = i THEN {} ELSE timeline[j]]
        /\ registered' = registered \o RegisterCalls(GenerateId(i))
    /\ phase' = IF NumCreated + 1 = IMAGES THEN "signalling" ELSE "creating"
    /\ UNCHANGED <<IMAGES, next_image, sig_i, handles, pc, gpu, ret, comp, steps, call>>

\* Variant: a failed image is left out and the ring is built from the rest.
PhaseAfterCreateFailureSkip == "signalling"

\* Swapchain::new, lines 33-45: a panic of Dmatex::new unwinds out of
\* Swapchain::new, no Swapchain is returned.
PhaseAfterCreateFailure == "panicked"

\* Any unwrap() / panic! inside Dmatex::new.  The failing step is the
\* registration itself (the call was issued) or a step before it.
DmatexNewPanic ==
    /\ phase = "creating"
    /\ NumCreated < IMAGES
    /\ phase' = PhaseAfterCreateFailure
    /\ \E issued \in BOOLEAN :
        registered' = IF issued THEN registered \o RegisterCalls(GenerateId(NumCreated))
                                ELSE registered
    /\ UNCHANGED <<IMAGES, images, next_image, sig_i, timeline, handles, pc, gpu, ret, comp, steps, call>>

\* image.0.timeline.signal(0).unwrap() for one image of the loop; after the
\* last one the Swapchain is returned with next_image: 0.
\* Variant: the timelines are left unsignalled by the constructor.
SignalAtCreateSkipped == {}

SignalAtCreate == {Entry(0, "cpu", 0)}

SignalZero ==
    /\ phase = "signalling"
    /\ sig_i < IMAGES
    /\ timeline' = [timeline EXCEPT ![sig_i] = @ \cup SignalAtCreate]
    /\ sig_i' = sig_i + 1
    /\ phase' = IF sig_i + 1 = IMAGES THEN "ready" ELSE "signalling"
    /\ next_image' = 0
    /\ UNCHANGED <<IMAGES, images, handles, pc, gpu, ret, comp, steps, registered, call>>

SignalZeroPanic ==
    /\ phase = "signalling"
    /\ sig_i < IMAGES
    /\ phase' = "panicked"
    /\ UNCHANGED <<IMAGES, images, next_image, sig_i, timeline, handles, pc, gpu, ret, comp, steps, registered, call>>

\* ------------------------------------------- Swapchain::prepare_next_image
\* Variant: the call first waits for the slot's stored release point.
CanPrepareBlocking ==
    /\ phase = "ready"
    /\ Reached(next_image, images[next_image].previous_release)

\* `&mut self` of a constructed Swapchain is all the call needs.
CanPrepare == phase = "ready"

\* Variant: the increment of the cursor is lost.
NextIndexNoIncrement(cur, len) == cur % len

\* self.next_image += 1; self.next_image %= images_len;
NextIndex(cur, len) == (cur + 1) % len

\* Variant: the acquire point does not step past the stored release point.
AcquirePointNoStep(previous_release) == previous_release

\* let acquire_point = *previous_release + 1;
AcquirePoint(previous_release) == previous_release + 1

\* Variant: the acquire point itself is stored as the new release point.
ReleaseAfterSamePoint(acquire_point) == acquire_point

\* Variant: the stored release point skips two points past the acquire point.
ReleaseAfterSkip(acquire_point) == acquire_point + 3

\* *previous_release = acquire_point + 1;
ReleaseAfter(acquire_point) == acquire_point + 1

\* Variant: the new release point is stored into every slot of the ring.
StoreReleaseAll(imgs, i, r) == [j \in DOMAIN imgs |-> [imgs[j] EXCEPT !.previous_release = r]]

\* let (image, previous_release) = self.images.get_mut(self.next_image);
\* *previous_release = acquire_point + 1;
StoreRelease(imgs, i, r) == [imgs EXCEPT ![i].previous_release = r]

PrepareNextImage ==
    /\ CanPrepare
    /\ Len(handles) < MaxAcquire
    /\ LET images_len == Cardinality(DOMAIN images)
           previous_release == images[next_image].previous_release
           acquire_point == AcquirePoint(previous_release)
           previous_server_release == previous_release
           new_release == ReleaseAfter(acquire_point)
       IN
        /\ next_image' = NextIndex(next_image, images_len)
        /\ images' = StoreRelease(images, next_image, new_release)
        /\ handles' = Append(handles,
                        [previous_server_release |-> previous_server_release,
                         server_acquire |-> acquire_point,
                         next_server_release |-> new_release,
                         image |-> next_image])
    /\ pc' = Append(pc, "acquired")
    /\ gpu' = Append(gpu, "none")
    /\ ret' = Append(ret, NoParam)
    /\ comp' = Append(comp, "none")
    /\ steps' = Append(steps, <<>>)
    /\ UNCHANGED <<IMAGES, phase, sig_i, timeline, registered, call>>

\* ------------------------------------------------- SwapchainFrameHandle
\* pub fn image(&self) -> &Arc<Dmatex>: a read of the handle, no state change.
Image(h) == images[handles[h].image].dmatex_id

Entered == {h \in Handles : pc[h] # "acquired"}

\* blocking_release_wait: the call is entered ...
BlockingReleaseWaitCall(h) ==
    /\ pc[h] = "acquired"
    /\ Cardinality(Entered) < MaxSubmits
    /\ pc' = [pc EXCEPT ![h] = "blocked"]
    /\ UNCHANGED <<IMAGES, phase, images, next_image, sig_i, timeline, handles, gpu, ret, comp, steps, registered, call>>

\* Variant: the wait polls the timeline once and returns.
WaitSatisfiedPolled(h) == TRUE

\* ... and blocking_wait(self.previous_server_release, None) lets it return.
WaitSatisfied(h) == Reached(handles[h].image, handles[h].previous_server_release)

BlockingReleaseWaitReturn(h) ==
    /\ pc[h] = "blocked"
    /\ WaitSatisfied(h)
    /\ pc' = [pc EXCEPT ![h] = "acquired"]
    /\ UNCHANGED <<IMAGES, phase, images, next_image, sig_i, timeline, handles, gpu, ret, comp, steps, registered, call>>

\* The steps of submit, in the order of the function body.
SubmitOrder == <<"import_wait", "create_signal", "submit_fn", "import_acquire", "return">>

Did(h, step) == [steps EXCEPT ![h] = Append(@, step)]

\* Variant: the wait semaphore is fed from the point signalled at creation.
WaitPointInitial(h) == 0

\* submit, lines 94-109: the wait semaphore is taken from the pool and the
\* sync file of the timeline point below is imported into it.
WaitPoint(h) == handles[h].previous_server_release

SubmitImportWait(h) ==
    /\ pc[h] = "acquired"
    /\ Cardinality(Entered) < MaxSubmits
    /\ pc' = [pc EXCEPT ![h] = "wait_imported"]
    /\ steps' = Did(h, "import_wait")
    /\ UNCHANGED <<IMAGES, phase, images, next_image, sig_i, timeline, handles, gpu, ret, comp, registered, call>>

\* submit, lines 111-120: the exportable submit semaphore is created.
SubmitCreateSignal(h) ==
    /\ pc[h] = "wait_imported"
    /\ pc' = [pc EXCEPT ![h] = "signal_created"]
    /\ steps' = Did(h, "create_signal")
    /\ UNCHANGED <<IMAGES, phase, images, next_image, sig_i, timeline, handles, gpu, ret, comp, registered, call>>

\* Variant: the closure is run before the wait semaphore is set up.
InvokeAtEntry == "acquired"

\* submit, line 121: the caller's closure is run, once (FnOnce), at this
\* position; it queues GPU work that waits on the wait semaphore and signals
\* the submit semaphore.
InvokeAt == "signal_created"

SubmitInvoke(h) ==
    /\ pc[h] = InvokeAt
    /\ pc' = [pc EXCEPT ![h] = "submitted"]
    /\ gpu' = [gpu EXCEPT ![h] = "queued"]
    /\ steps' = Did(h, "submit_fn")
    /\ UNCHANGED <<IMAGES, phase, images, next_image, sig_i, timeline, handles, ret, comp, registered, call>>

\* Variant: server_acquire is signalled from the CPU right after submission.
AcquireEntryCpuSignal(h) == Entry(handles[h].server_acquire, "cpu", 0)

\* submit, lines 123-131: the submit semaphore is exported as a sync file
\* and imported into the image's timeline at server_acquire.
AcquireEntry(h) == Entry(handles[h].server_acquire, "gpu", h)

SubmitImportAcquire(h) ==
    /\ pc[h] = "submitted"
    /\ timeline' = [timeline EXCEPT ![handles[h].image] = @ \cup {AcquireEntry(h)}]
    /\ pc' = [pc EXCEPT ![h] = "acquire_imported"]
    /\ steps' = Did(h, "import_acquire")
    /\ UNCHANGED <<IMAGES, phase, images, next_image, sig_i, handles, gpu, ret, comp, registered, call>>

\* Variant: the acquire point is reported as the release point.
MaterialParamAcquireAsRelease(h) ==
    [dmatex_id |-> images[handles[h].image].dmatex_id,
     acquire_point |-> handles[h].server_acquire,
     release_point |-> handles[h].server_acquire]

\* submit, lines 133-137: the DmatexMaterialParam is returned.
MaterialParam(h) ==
    [dmatex_id |-> images[handles[h].image].dmatex_id,
     acquire_point |-> handles[h].server_acquire,
     release_point |-> handles[h].next_server_release]

SubmitReturn(h) ==
    /\ pc[h] = "acquire_imported"
    /\ ret' = [ret EXCEPT ![h] = MaterialParam(h)]
    /\ pc' = [pc EXCEPT ![h] = "returned"]
    /\ steps' = Did(h, "return")
    /\ UNCHANGED <<IMAGES, phase, images, next_image, sig_i, timeline, handles, gpu, comp, registered, call>>

\* An unwrap() of submit (lines 94, 102, 108, 119, 126, 131) or of
\* blocking_release_wait (line 86) panics: the call unwinds and returns
\* nothing.  The fallible steps are the ones that follow these positions.
FalliblePositions == {"acquired", "blocked", "wait_imported", "submitted"}

\* Variant: a failed submit gives the slot its previous release point back.
ImagesAfterPanicRollback(h) ==
    [images EXCEPT ![handles[h].image].previous_release = handles[h].previous_server_release]

\* submit takes the handle by value and has no access to the Swapchain.
ImagesAfterPanic(h) == images

HandlePanic(h) ==
    /\ pc[h] \in FalliblePositions
    /\ pc[h] = "acquired" => Cardinality(Entered) < MaxSubmits
    /\ pc' = [pc EXCEPT ![h] = "panicked"]
    /\ images' = ImagesAfterPanic(h)
    /\ UNCHANGED <<IMAGES, phase, next_image, sig_i, timeline, handles, gpu, ret, comp, steps, registered, call>>

\* ------------------------------------------------------------------ GPU
\* The queued work starts writing the image once its wait semaphore (the
\* sync file of previous_server_release) has signalled.
GpuStart(h) ==
    /\ gpu[h] = "queued"
    /\ Reached(handles[h].image, WaitPoint(h))
    /\ gpu' = [gpu EXCEPT ![h] = "writing"]
    /\ UNCHANGED <<IMAGES, phase, images, next_image, sig_i, timeline, handles, pc, ret, comp, steps, registered, call>>

\* The work completes and signals the submit semaphore.
GpuFinish(h) ==
    /\ gpu[h] = "writing"
    /\ gpu' = [gpu EXCEPT ![h] = "done"]
    /\ UNCHANGED <<IMAGES, phase, images, next_image, sig_i, timeline, handles, pc, ret, comp, steps, registered, call>>

\* ----------------------------------------------------------- compositor
ImageOfId(id) == CHOOSE i \in DOMAIN images : images[i].dmatex_id = id

\* The caller hands the returned DmatexMaterialParam to the compositor.
CompReceive(h) ==
    /\ pc[h] = "returned"
    /\ comp[h] = "none"
    /\ comp' = [comp EXCEPT ![h] = "delivered"]
    /\ UNCHANGED <<IMAGES, phase, images, next_image, sig_i, timeline, handles, pc, gpu, ret, steps, registered, call>>

\* The compositor waits on acquire_point before it samples the image.
CompStartRead(h) ==
    /\ comp[h] = "delivered"
    /\ Reached(ImageOfId(ret[h].dmatex_id), ret[h].acquire_point)
    /\ comp' = [comp EXCEPT ![h] = "reading"]
    /\ UNCHANGED <<IMAGES, phase, images, next_image, sig_i, timeline, handles, pc, gpu, ret, steps, registered, call>>

\* Done with the frame, the compositor signals release_point.
CompRelease(h) ==
    /\ comp[h] = "reading"
    /\ timeline' = [timeline EXCEPT ![ImageOfId(ret[h].dmatex_id)] =
                        @ \cup {Entry(ret[h].release_point, "cpu", 0)}]
    /\ comp' = [comp EXCEPT ![h] = "released"]
    /\ UNCHANGED <<IMAGES, phase, images, next_image, sig_i, handles, pc, gpu, ret, steps, registered, call>>

Next ==
    \/ DmatexNew
    \/ DmatexNewPanic
    \/ SignalZero
    \/ SignalZeroPanic
    \/ PrepareNextImage
    \/ \E h \in Handles : BlockingReleaseWaitCall(h)
    \/ \E h \in Handles : BlockingReleaseWaitReturn(h)
    \/ \E h \in Handles : SubmitImportWait(h)
    \/ \E h \in Handles : SubmitCreateSignal(h)
    \/ \E h \in Handles : SubmitInvoke(h)
    \/ \E h \in Handles : SubmitImportAcquire(h)
    \/ \E h \in Handles : SubmitReturn(h)
    \/ \E h \in Handles : HandlePanic(h)
    \/ \E h \in Handles : GpuStart(h)
    \/ \E h \in Handles : GpuFinish(h)
    \/ \E h \in Handles : CompReceive(h)
    \/ \E h \in Handles : CompStartRead(h)
    \/ \E h \in Handles : CompRelease(h)

Spec == Init /\ [][Next]_vars

\* ------------------------------------------------------- Dmatex::new
\* The ring is not involved in a single call of Dmatex::new, enumerate or
\* get_phys_dev_node_id: its variables stay as before construction.
ring == <<IMAGES, phase, images, next_image, sig_i, timeline, handles, pc, gpu, ret, comp, steps>>

IdleRing ==
    /\ IMAGES = 1
    /\ phase = "creating"
    /\ images = <<>>
    /\ next_image = 0
    /\ sig_i = 0
    /\ timeline = <<>>
    /\ handles = <<>>
    /\ pc = <<>>
    /\ gpu = <<>>
    /\ ret = <<>>
    /\ comp = <<>>
    /\ steps = <<>>

\* memory_properties().memory_types: the property flags the code looks at.
MemoryType == [device_local : BOOLEAN, protected : BOOLEAN]

MemoryTypeLists == UNION {[1 .. n -> MemoryType] : n \in 1 .. MaxMemTypes}

RECURSIVE Pow2(_)
Pow2(n) == IF n = 0 THEN 1 ELSE 2 * Pow2(n - 1)

\* raw_image.memory_requirements(): one memory_type_bits per plane, with at
\* least one bit of an existing memory type set.
MemReqLists(ntypes) == UNION {[1 .. n -> 1 .. (Pow2(ntypes) - 1)] : n \in 1 .. MaxPlanes}

\* v.memory_type_bits & (1 << i) != 0
BitSet(bits, i) == (bits \div Pow2(i)) % 2 # 0

\* Variant: the protected flag is not looked at.
TypeEligibleAnyLocal(p) == p.device_local

\* contains(DEVICE_LOCAL) && !contains(PROTECTED)
TypeEligible(p) == p.device_local /\ ~p.protected

None == [some |-> FALSE]

Some(v) == [some |-> TRUE, value |-> v]

\* memory_types.iter().enumerate().filter(bit i set).find(eligible)
FindMemoryType(types, bits) ==
    LET found == {i \in 0 .. (Len(types) - 1) : BitSet(bits, i) /\ TypeEligible(types[i + 1])} IN
    IF found = {} THEN None
    ELSE Some(CHOOSE i \in found : \A j \in found : i <= j)

\* The closure of the map over mem_reqs: the memory type, then the
\* allocation, whose error is logged and turned into None by .ok().
PlaneMemory(types, bits, alloc_ok) ==
    LET t == FindMemoryType(types, bits) IN
    IF t.some /\ alloc_ok THEN t ELSE None

\* collect::<Option<Vec<_>>>() takes the planes in order and stops at the
\* first None.
RECURSIVE CollectMems(_, _, _, _)
CollectMems(types, reqs, alloc_fail, k) ==
    IF k > Len(reqs) THEN <<>>
    ELSE LET m == PlaneMemory(types, reqs[k], alloc_fail # k) IN
         IF m.some THEN <<m>> \o CollectMems(types, reqs, alloc_fail, k + 1)
         ELSE <<m>>

\* match i { 0 => MemoryPlane0, 1 => MemoryPlane1, 2 => MemoryPlane2,
\*           3 => MemoryPlane3, _ => Color }
AspectOf(i) ==
    CASE i = 0 -> "MemoryPlane0"
      [] i = 1 -> "MemoryPlane1"
      [] i = 2 -> "MemoryPlane2"
      [] i = 3 -> "MemoryPlane3"
      [] OTHER -> "Color"

\* fds.into_iter().chain([first_fd]).enumerate().map(..): the handle of
\* every memory in order, then the clone of fds[0]; an entry records the
\* memory its handle refers to.
PlaneList(nfds) ==
    [i \in 1 .. (nfds + 1) |->
        [dmabuf |-> IF i <= nfds THEN i - 1 ELSE 0, aspect |-> AspectOf(i - 1)]]

InitCreate ==
    /\ IdleRing
    /\ registered = <<>>
    /\ call = NoCall

CreateCall ==
    /\ call = NoCall
    /\ \E types \in MemoryTypeLists : \E reqs \in MemReqLists(Len(types)) :
        call' = [op |-> "dmatex_new", types |-> types, mem_reqs |-> reqs,
                 stage |-> "allocate", mems |-> <<>>, planes |-> <<>>, dmatex_id |-> 0]
    /\ UNCHANGED <<ring, registered>>

\* let mems = mem_reqs.iter().map(..).collect::<Option<Vec<_>>>();
\* let mems = mems.unwrap();
CreateAllocate ==
    /\ call.op = "dmatex_new"
    /\ call.stage = "allocate"
    /\ \E alloc_fail \in 0 .. Len(call.mem_reqs) :
        LET mems == CollectMems(call.types, call.mem_reqs, alloc_fail, 1) IN
        call' = [call EXCEPT !.mems = mems,
                             !.stage = IF \A k \in 1 .. Len(mems) : mems[k].some
                                       THEN "export" ELSE "panicked"]
    /\ UNCHANGED <<ring, registered>>

\* export_fd of every memory, bind_memory, TimelineSyncObj::create,
\* generate_id, try_clone of fds[0] and the plane list.
CreateExport ==
    /\ call.op = "dmatex_new"
    /\ call.stage = "export"
    /\ call' = [call EXCEPT !.planes = PlaneList(Len(call.mems)),
                            !.dmatex_id = GenerateId(0),
                            !.stage = "register"]
    /\ UNCHANGED <<ring, registered>>

\* import_dmatex(client, dmatex_id, .., &planes, ..).unwrap()
CreateRegister ==
    /\ call.op = "dmatex_new"
    /\ call.stage = "register"
    /\ registered' = registered \o RegisterCalls(call.dmatex_id)
    /\ call' = [call EXCEPT !.stage = "done"]
    /\ UNCHANGED ring

\* An unwrap or the panic! of a step after the allocation fails.
CreatePanic ==
    /\ call.op = "dmatex_new"
    /\ call.stage \in {"export", "register"}
    /\ call' = [call EXCEPT !.stage = "panicked"]
    /\ UNCHANGED <<ring, registered>>

NextCreate ==
    \/ CreateCall
    \/ CreateAllocate
    \/ CreateExport
    \/ CreateRegister
    \/ CreatePanic

SpecCreate == InitCreate /\ [][NextCreate]_vars

\* ------------------------------------------------ DmatexFormat::enumerate
\* The format codes of the sampled enumerations: two fourccs of one Vulkan
\* format, one whose format has no SRGB variant, one fourcc without a Vulkan
\* format and one code that is no fourcc.
FormatCodes == {"Abgr8888", "Xbgr8888", "R16", "Nv12", "NotAFourcc"}

Modifiers == {0, 1}

PlaneCounts == {1}

FormatEntry == [format : FormatCodes, is_srgb : BOOLEAN, drm_modifier : Modifiers, planes : PlaneCounts]

FormatLists == UNION {[1 .. n -> FormatEntry] : n \in 0 .. MaxEntries}

\* The variants of DrmFourcc that from_drm_fourcc names, and one it does not.
DrmFourcc ==
    {"Abgr1555", "Xbgr1555", "Abgr2101010", "Xbgr2101010", "Abgr4444", "Xbgr4444",
     "Abgr8888", "Xbgr8888", "Argb1555", "Xrgb1555", "Argb2101010", "Xrgb2101010",
     "Argb4444", "Xrgb4444", "Argb8888", "Xrgb8888", "Bgr565", "Bgr888",
     "Bgra4444", "Bgrx4444", "Bgra5551", "Bgrx5551", "Bgra8888", "Bgrx8888",
     "R16", "R8", "Rg1616", "Rg88", "Rgb565", "Rgb888", "Rgba4444", "Rgbx4444",
     "Rgba5551", "Rgbx5551", "Rgba8888", "Rgbx8888", "Abgr16161616f", "Nv12"}

\* drm_fourcc::DrmFourcc::try_from(v.format)
FourccTryFrom(code) == IF code \in DrmFourcc THEN Some(code) ELSE None

\* Format::from_drm_fourcc
FromDrmFourcc(d) ==
    CASE d \in {"Abgr1555", "Xbgr1555"} -> Some("R5G5B5A1_UNORM_PACK16")
      [] d \in {"Abgr2101010", "Xbgr2101010"} -> Some("A2B10G10R10_UNORM_PACK32")
      [] d \in {"Abgr4444", "Xbgr4444"} -> Some("A4B4G4R4_UNORM_PACK16")
      [] d \in {"Abgr8888", "Xbgr8888"} -> Some("R8G8B8A8_UNORM")
      [] d \in {"Argb1555", "Xrgb1555"} -> Some("A1R5G5B5_UNORM_PACK16")
      [] d \in {"Argb2101010", "Xrgb2101010"} -> Some("A2R10G10B10_UNORM_PACK32")
      [] d \in {"Argb4444", "Xrgb4444"} -> Some("B4G4R4A4_UNORM_PACK16")
      [] d \in {"Argb8888", "Xrgb8888"} -> Some("B8G8R8A8_UNORM")
      [] d = "Bgr565" -> Some("B5G6R5_UNORM_PACK16")
      [] d = "Bgr888" -> Some("B8G8R8_UNORM")
      [] d \in {"Bgra4444", "Bgrx4444"} -> Some("B4G4R4A4_UNORM_PACK16")
      [] d \in {"Bgra5551", "Bgrx5551"} -> Some("B5G5R5A1_UNORM_PACK16")
      [] d \in {"Bgra8888", "Bgrx8888"} -> Some("B8G8R8A8_UNORM")
      [] d = "R16" -> Some("R16_UNORM")
      [] d = "R8" -> Some("R8_UNORM")
      [] d = "Rg1616" -> Some("R16G16_UNORM")
      [] d = "Rg88" -> Some("R8G8_UNORM")
      [] d = "Rgb565" -> Some("R5G6B5_UNORM_PACK16")
      [] d = "Rgb888" -> Some("R8G8B8_UNORM")
      [] d \in {"Rgba4444", "Rgbx4444"} -> Some("R4G4B4A4_UNORM_PACK16")
      [] d \in {"Rgba5551", "Rgbx5551"} -> Some("R5G5B5A1_UNORM_PACK16")
      [] d \in {"Rgba8888", "Rgbx8888"} -> Some("R8G8B8A8_UNORM")
      [] d = "Abgr16161616f" -> Some("R16G16B16A16_SFLOAT")
      [] OTHER -> None

\* Format::to_srgb
ToSrgb(f) ==
    CASE f = "R8_UNORM" -> Some("R8_SRGB")
      [] f = "R8G8_UNORM" -> Some("R8G8_SRGB")
      [] f = "R8G8B8_UNORM" -> Some("R8G8B8_SRGB")
      [] f = "B8G8R8_UNORM" -> Some("B8G8R8_SRGB")
      [] f = "R8G8B8A8_UNORM" -> Some("R8G8B8A8_SRGB")
      [] f = "B8G8R8A8_UNORM" -> Some("B8G8R8A8_SRGB")
      [] f = "A8B8G8R8_UNORM_PACK32" -> Some("A8B8G8R8_SRGB_PACK32")
      [] f = "BC1_RGB_UNORM_BLOCK" -> Some("BC1_RGB_SRGB_BLOCK")
      [] f = "BC1_RGBA_UNORM_BLOCK" -> Some("BC1_RGBA_SRGB_BLOCK")
      [] f = "BC2_UNORM_BLOCK" -> Some("BC2_SRGB_BLOCK")
      [] f = "BC3_UNORM_BLOCK" -> Some("BC3_SRGB_BLOCK")
      [] f = "BC7_UNORM_BLOCK" -> Some("BC7_SRGB_BLOCK")
      [] f = "ETC2_R8G8B8_UNORM_BLOCK" -> Some("ETC2_R8G8B8_SRGB_BLOCK")
      [] f = "ETC2_R8G8B8A1_UNORM_BLOCK" -> Some("ETC2_R8G8B8A1_SRGB_BLOCK")
      [] f = "ETC2_R8G8B8A8_UNORM_BLOCK" -> Some("ETC2_R8G8B8A8_SRGB_BLOCK")
      [] OTHER -> None

\* The let-else chain of the loop body: the format an entry resolves to, or
\* None where the body continues with the next entry.
ResolveFormat(v) ==
    LET fourcc == FourccTryFrom(v.format) IN
    IF ~fourcc.some THEN None
    ELSE LET format == FromDrmFourcc(fourcc.value) IN
         IF ~format.some THEN None
         ELSE IF v.is_srgb THEN ToSrgb(format.value) ELSE format

DmatexFormatVariant(v) == [modifier |-> v.drm_modifier, planes |-> v.planes]

\* Variant: the descriptor of the format is replaced by one holding the new
\* variant alone.
EntryPushReplacing(out, format, fourcc, variant) ==
    [f \in DOMAIN out \cup {format} |->
        IF f = format
        THEN [format |-> format, fourcc |-> fourcc, variants |-> <<variant>>]
        ELSE out[f]]

\* out.entry(format).or_insert_with(|| DmatexFormat { format, fourcc,
\* variants: vec![] }).variants.push(variant)
EntryPush(out, format, fourcc, variant) ==
    [f \in DOMAIN out \cup {format} |->
        IF f = format
        THEN IF format \in DOMAIN out
             THEN [out[format] EXCEPT !.variants = Append(@, variant)]
             ELSE [format |-> format, fourcc |-> fourcc, variants |-> <<variant>>]
        ELSE out[f]]

InitFormat ==
    /\ IdleRing
    /\ registered = <<>>
    /\ call = NoCall

\* let formats = enumerate_dmatex_formats(..).await?; let mut out = HashMap::new();
EnumerateCall ==
    /\ call = NoCall
    /\ \E formats \in FormatLists :
        call' = [op |-> "enumerate", formats |-> formats, i |-> 0, out |-> <<>>, stage |-> "loop"]
    /\ UNCHANGED <<ring, registered>>

\* One iteration of `for v in formats`.
EnumerateEntry ==
    /\ call.op = "enumerate"
    /\ call.stage = "loop"
    /\ call.i < Len(call.formats)
    /\ LET v == call.formats[call.i + 1]
           format == ResolveFormat(v)
       IN call' = [call EXCEPT
                    !.i = @ + 1,
                    !.out = IF format.some
                            THEN EntryPush(@, format.value, v.format, DmatexFormatVariant(v))
                            ELSE @]
    /\ UNCHANGED <<ring, registered>>

\* Ok(out)
EnumerateReturn ==
    /\ call.op = "enumerate"
    /\ call.stage = "loop"
    /\ call.i = Len(call.formats)
    /\ call' = [call EXCEPT !.stage = "done"]
    /\ UNCHANGED <<ring, registered>>

NextFormat ==
    \/ EnumerateCall
    \/ EnumerateEntry
    \/ EnumerateReturn

SpecFormat == InitFormat /\ [][NextFormat]_vars

\* ------------------------------------------------ get_phys_dev_node_id
\* A u64 is kept as its 64 bits, bit 0 the lowest.
BitIndex == 0 .. 63

\* `as u64` of a device number below 2^31.
AsU64(n) == [i \in BitIndex |-> IF i > 30 THEN 0 ELSE (n \div Pow2(i)) % 2]

\* The constant whose bits lo..hi are set: 0xfff is MaskOf(0, 11).
MaskOf(lo, hi) == [i \in BitIndex |-> IF lo <= i /\ i <= hi THEN 1 ELSE 0]

BitAnd(a, b) == [i \in BitIndex |-> a[i] * b[i]]

BitOr(a, b) == [i \in BitIndex |-> IF a[i] = 1 \/ b[i] = 1 THEN 1 ELSE 0]

\* a << n on u64: the bits shifted past bit 63 are lost.
Shl(a, n) == [i \in BitIndex |-> IF i >= n THEN a[i - n] ELSE 0]

\* ((major & 0xfffff000) << 32) | ((major & 0xfff) << 8) | (minor & 0xff)
GetPhysDevNodeId(major, minor) ==
    BitOr(BitOr(Shl(BitAnd(AsU64(major), MaskOf(12, 31)), 32),
                Shl(BitAnd(AsU64(major), MaskOf(0, 11)), 8)),
          BitAnd(AsU64(minor), MaskOf(0, 7)))

\* props.render_major, props.render_minor: a sample of device numbers around
\* the 8-bit and 12-bit boundaries of the fields of dev_t.
RenderMajors == {0, 1, 226, 4095, 4096, 4097, 8418}

RenderMinors == {0, 1, 128, 129, 255, 256, 384, 65664}

InitNode ==
    /\ IdleRing
    /\ registered = <<>>
    /\ call = NoCall

\* let major = props.render_major.unwrap() as u64; let minor = ..
NodeIdCall ==
    /\ call = NoCall
    /\ \E major \in RenderMajors : \E minor \in RenderMinors :
        call' = [op |-> "get_phys_dev_node_id", major |-> major, minor |-> minor,
                 stage |-> "called", out |-> AsU64(0)]
    /\ UNCHANGED <<ring, registered>>

NodeIdReturn ==
    /\ call.op = "get_phys_dev_node_id"
    /\ call.stage = "called"
    /\ call' = [call EXCEPT !.out = GetPhysDevNodeId(call.major, call.minor),
                            !.stage = "done"]
    /\ UNCHANGED <<ring, registered>>

NextNode ==
    \/ NodeIdCall
    \/ NodeIdReturn

SpecNode == InitNode /\ [][NextNode]_vars

\* ---------------------------------------------- caller usage discipline
\* submit(self) consumes the handle: a handoff is outstanding from its
\* acquisition until submit has returned or unwound.
Outstanding(h) == pc[h] \notin {"returned", "panicked"}

OutstandingOn(i) == {h \in Handles : handles[h].image = i /\ Outstanding(h)}

\* The caller acquires a slot again only after its previous handoff was
\* submitted.
DisciplinedPrepare ==
    /\ phase = "ready"
    /\ OutstandingOn(next_image) = {}
    /\ PrepareNextImage

NextDiscipline ==
    \/ DmatexNew
    \/ DmatexNewPanic
    \/ SignalZero
    \/ SignalZeroPanic
    \/ DisciplinedPrepare
    \/ \E h \in Handles : BlockingReleaseWaitCall(h)
    \/ \E h \in Handles : BlockingReleaseWaitReturn(h)
    \/ \E h \in Handles : SubmitImportWait(h)
    \/ \E h \in Handles : SubmitCreateSignal(h)
    \/ \E h \in Handles : SubmitInvoke(h)
    \/ \E h \in Handles : SubmitImportAcquire(h)
    \/ \E h \in Handles : SubmitReturn(h)
    \/ \E h \in Handles : HandlePanic(h)
    \/ \E h \in Handles : GpuStart(h)
    \/ \E h \in Handles : GpuFinish(h)
    \/ \E h \in Handles : CompReceive(h)
    \/ \E h \in Handles : CompStartRead(h)
    \/ \E h \in Handles : CompRelease(h)

SpecDiscipline == Init /\ [][NextDiscipline]_vars


\* The protocol when nothing fails and every acquired handle is submitted:
\* the caller goes on to submit each handle and hands its parameter to the
\* compositor, the GPU runs the work it was given, and the compositor
\* releases every frame it received.
LivePrepare == Len(handles) < MaxSubmits /\ PrepareNextImage

LiveNext ==
    \/ DmatexNew
    \/ SignalZero
    \/ LivePrepare
    \/ \E h \in Handles : BlockingReleaseWaitCall(h)
    \/ \E h \in Handles : BlockingReleaseWaitReturn(h)
    \/ \E h \in Handles : SubmitImportWait(h)
    \/ \E h \in Handles : SubmitCreateSignal(h)
    \/ \E h \in Handles : SubmitInvoke(h)
    \/ \E h \in Handles : SubmitImportAcquire(h)
    \/ \E h \in Handles : SubmitReturn(h)
    \/ \E h \in Handles : GpuStart(h)
    \/ \E h \in Handles : GpuFinish(h)
    \/ \E h \in Handles : CompReceive(h)
    \/ \E h \in Handles : CompStartRead(h)
    \/ \E h \in Handles : CompRelease(h)

HandleIds == 1 .. MaxAcquire

LiveSpec ==
    /\ Init
    /\ [][LiveNext]_vars
    /\ \A h \in HandleIds : SF_vars(h \in Handles /\ SubmitImportWait(h))
    /\ \A h \in HandleIds : WF_vars(h \in Handles /\ BlockingReleaseWaitReturn(h))
    /\ \A h \in HandleIds : WF_vars(h \in Handles /\ SubmitCreateSignal(h))
    /\ \A h \in HandleIds : WF_vars(h \in Handles /\ SubmitInvoke(h))
    /\ \A h \in HandleIds : WF_vars(h \in Handles /\ SubmitImportAcquire(h))
    /\ \A h \in HandleIds : WF_vars(h \in Handles /\ SubmitReturn(h))
    /\ \A h \in HandleIds : WF_vars(h \in Handles /\ GpuStart(h))
    /\ \A h \in HandleIds : WF_vars(h \in Handles /\ GpuFinish(h))
    /\ \A h \in HandleIds : WF_vars(h \in Handles /\ CompReceive(h))
    /\ \A h \in HandleIds : WF_vars(h \in Handles /\ CompStartRead(h))
    /\ \A h \in HandleIds : WF_vars(h \in Handles /\ CompRelease(h))

\* ------------------------------------------------------------ properties
SameImage(g, h) == handles[g].image = handles[h].image

\* The handles acquired on the slot of h before h.
EarlierOnSlot(h) == {g \in Handles : g < h /\ SameImage(g, h)}

\* g is the handle that follows h on the slot of h.
NextOnSlot(h, g) ==
    /\ h < g
    /\ SameImage(h, g)
    /\ \A k \in Handles : (h < k /\ k < g) => ~SameImage(h, k)

LastOnSlot(i) == {h \in Handles : handles[h].image = i /\ \A k \in Handles : k > h => handles[k].image # i}

\* C1: GPU work of a handle writes the image only once the slot's timeline
\* has reached the handle's previous_server_release, and never while the
\* compositor is reading a frame handed over earlier on that slot.
NoWriteWhileRead ==
    \A h \in Handles :
        gpu[h] = "writing" =>
            /\ Reached(handles[h].image, handles[h].previous_server_release)
            /\ \A g \in EarlierOnSlot(h) : comp[g] # "reading"

NoWriteWhileReadWitness ==
    \E h \in Handles : \E g \in EarlierOnSlot(h) :
        gpu[h] = "writing" /\ comp[g] = "released"

\* C2: the timeline reaches a frame's acquire point only after the frame's
\* GPU work has signalled the submit semaphore, so the compositor never
\* reads an image whose rendering is unfinished.
AcquireAfterRender ==
    \A h \in Handles :
        /\ Reached(handles[h].image, handles[h].server_acquire) => gpu[h] = "done"
        /\ comp[h] \in {"reading", "released"} => gpu[h] = "done"

AcquireAfterRenderWitness ==
    \E h \in Handles : comp[h] = "reading" /\ gpu[h] = "done"

\* C3: the k-th acquisition returns the image of slot (k-1) mod N, and the
\* cursor is in 0..N-1 and equals the number of acquisitions mod N.
RoundRobin ==
    /\ \A k \in Handles : handles[k].image = (k - 1) % IMAGES
    /\ next_image \in 0 .. (IMAGES - 1)
    /\ next_image = Len(handles) % IMAGES

RoundRobinWitness ==
    /\ IMAGES = 3
    /\ Len(handles) = 5
    /\ [k \in 1 .. 5 |-> handles[k].image] = <<0, 1, 2, 0, 1>>

\* C4: a handle carries previous_server_release = 2*j for j earlier
\* acquisitions of its slot, server_acquire one above it and
\* next_server_release one above that; the slot stores the
\* next_server_release of the handle acquired last on it.
PointArithmetic ==
    /\ \A h \in Handles :
        /\ handles[h].previous_server_release = 2 * Cardinality(EarlierOnSlot(h))
        /\ handles[h].server_acquire = handles[h].previous_server_release + 1
        /\ handles[h].next_server_release = handles[h].server_acquire + 1
    /\ \A i \in DOMAIN images :
        /\ LastOnSlot(i) = {} => images[i].previous_release = 0
        /\ \A h \in LastOnSlot(i) : images[i].previous_release = handles[h].next_server_release

PointArithmeticWitness ==
    /\ IMAGES = 3
    /\ Len(handles) = 5
    /\ [k \in 1 .. 5 |-> handles[k].server_acquire] = <<1, 1, 1, 3, 3>>

\* C5: the release_point returned by the submit of a handle is the point the
\* next handle of the same slot waits on.
RoundTrip ==
    \A h \in Handles : \A g \in Handles :
        (NextOnSlot(h, g) /\ ret[h] # NoParam) =>
            /\ ret[h].release_point = handles[g].previous_server_release
            /\ ret[h].release_point = WaitPoint(g)

RoundTripWitness ==
    \E h \in Handles : \E g \in Handles :
        /\ NextOnSlot(h, g)
        /\ g > h + 1
        /\ ret[h] # NoParam
        /\ pc[h + 1] # "acquired"

\* C6: prepare_next_image is enabled in every state of a constructed ring,
\* whatever the compositor has released and however many handles are
\* outstanding.
PrepareNeverBlocks ==
    (phase = "ready" /\ Len(handles) < MaxAcquire) => ENABLED PrepareNextImage

PrepareNeverBlocksWitness ==
    /\ phase = "ready"
    /\ Len(handles) > IMAGES
    /\ Len(handles) < MaxAcquire
    /\ \A h \in Handles : comp[h] # "released" /\ pc[h] = "acquired"

\* C7: once Swapchain::new has returned, all N slots exist and every
\* timeline has reached point 0; before the first acquisition every stored
\* release point and the cursor are 0; the wait of the first handle of a
\* slot is satisfied without the compositor.
ConstructedState ==
    phase = "ready" =>
        /\ DOMAIN images = Slots
        /\ \A i \in Slots : Reached(i, 0)
        /\ handles = <<>> => (next_image = 0 /\ \A i \in Slots : images[i].previous_release = 0)
        /\ \A h \in Handles :
                EarlierOnSlot(h) = {} => Reached(handles[h].image, handles[h].previous_server_release)

ConstructedStateWitness ==
    \E h \in Handles :
        /\ EarlierOnSlot(h) = {}
        /\ gpu[h] = "writing"
        /\ \A g \in Handles : comp[g] = "none"

\* C8: submit performs its steps in the order wait import, submit semaphore
\* creation, one run of the closure, import at server_acquire, return of
\* {dmatex_id of the image, server_acquire, next_server_release}.
IsPrefix(t, u) == Len(t) <= Len(u) /\ t = SubSeq(u, 1, Len(t))

SubmitStepOrder ==
    \A h \in Handles :
        /\ IsPrefix(steps[h], SubmitOrder)
        /\ gpu[h] # "none" <=> Len(steps[h]) >= 3
        /\ (\E e \in timeline[handles[h].image] : e.by = "gpu" /\ e.h = h) <=> Len(steps[h]) >= 4
        /\ ret[h] # NoParam <=> Len(steps[h]) = 5
        /\ ret[h] # NoParam =>
            ret[h] = [dmatex_id |-> images[handles[h].image].dmatex_id,
                      acquire_point |-> handles[h].server_acquire,
                      release_point |-> handles[h].next_server_release]

SubmitStepOrderWitness ==
    \E h \in Handles : pc[h] = "returned" /\ steps[h] = SubmitOrder

\* C9: blocking_release_wait returns only when the slot's timeline has
\* reached the handle's previous_server_release, and, when every handle is
\* submitted, its work completes and the compositor releases every frame it
\* received, every call of it returns.
BlockingWaitReturns ==
    /\ [][\A h \in Handles :
            (pc[h] = "blocked" /\ pc'[h] = "acquired") =>
                Reached(handles[h].image, handles[h].previous_server_release)]_vars
    /\ \A h \in HandleIds :
            (h \in Handles /\ pc[h] = "blocked") ~> (h \in Handles /\ pc[h] = "acquired")

BlockingWaitReturnsWitness ==
    \E h \in Handles : \E g \in EarlierOnSlot(h) :
        /\ pc[h] = "blocked"
        /\ comp[g] = "released"
        /\ handles[h].previous_server_release = ret[g].release_point
        /\ Reached(handles[h].image, handles[h].previous_server_release)

\* C10: a submit that fails returns no DmatexMaterialParam and leaves the
\* cursor and the slot's stored release point as prepare_next_image set
\* them: the next handle of the slot starts from the failed handle's
\* next_server_release.
FailedSubmitKeepsAdvance ==
    \A h \in Handles :
        pc[h] = "panicked" =>
            /\ ret[h] = NoParam
            /\ comp[h] = "none"
            /\ next_image = Len(handles) % IMAGES
            /\ h \in LastOnSlot(handles[h].image) =>
                    images[handles[h].image].previous_release = handles[h].next_server_release
            /\ \A g \in Handles : NextOnSlot(h, g) =>
                    handles[g].previous_server_release = handles[h].next_server_release

FailedSubmitKeepsAdvanceWitness ==
    \E h \in Handles : \E g \in Handles :
        /\ pc[h] = "panicked"
        /\ steps[h] # <<>>
        /\ NextOnSlot(h, g)
        /\ g = Len(handles)

RegistrationsOf(id) == {k \in 1 .. Len(registered) : registered[k] = id}

\* C11: ring construction is all-or-nothing: a ring is returned, and
\* acquisition is possible, only when all N images were created and
\* registered and every timeline was signalled at point 0; after a failed
\* image creation there is no ring.
AllOrNothing ==
    /\ phase \in {"signalling", "ready"} =>
        /\ NumCreated = IMAGES
        /\ \A i \in Slots : RegistrationsOf(images[i].dmatex_id) # {}
    /\ phase = "ready" => \A i \in Slots : Entry(0, "cpu", 0) \in timeline[i]
    /\ phase # "ready" => (handles = <<>> /\ ~ENABLED PrepareNextImage)

AllOrNothingWitness ==
    /\ phase = "panicked"
    /\ NumCreated >= 1
    /\ NumCreated < IMAGES
    /\ handles = <<>>

\* C12: every failure of image creation, of submit and of the blocking wait
\* is reported to the caller as an error value, so no call ends in a panic.
FailuresAreErrorValues ==
    /\ phase # "panicked"
    /\ \A h \in Handles : pc[h] # "panicked"

TimesDone(h, step) == Cardinality({k \in 1 .. Len(steps[h]) : steps[h][k] = step})

\* C17: on one slot no timeline point is signalled twice: acquire points are
\* odd and pairwise distinct, release points are even, positive and pairwise
\* distinct, point 0 is signalled only at creation, every signal on the
\* timeline is the one signal of its point, and no handle imports its acquire
\* point more than once.
NoPointTwice ==
    /\ \A h \in Handles :
        /\ handles[h].server_acquire % 2 = 1
        /\ handles[h].next_server_release % 2 = 0
        /\ handles[h].next_server_release > 0
        /\ TimesDone(h, "import_acquire") <= 1
        /\ \A g \in Handles :
            (g # h /\ SameImage(g, h)) =>
                /\ handles[g].server_acquire # handles[h].server_acquire
                /\ handles[g].next_server_release # handles[h].next_server_release
    /\ \A i \in DOMAIN timeline : \A e \in timeline[i] :
        /\ \A f \in timeline[i] : f.point = e.point => f = e
        /\ e.point = 0 => e = Entry(0, "cpu", 0)
        /\ (e.point > 0 /\ e.point % 2 = 1) =>
            /\ e.by = "gpu"
            /\ e.h \in Handles
            /\ handles[e.h].image = i
            /\ handles[e.h].server_acquire = e.point
            /\ TimesDone(e.h, "import_acquire") = 1
        /\ (e.point > 0 /\ e.point % 2 = 0) =>
            /\ e.by = "cpu"
            /\ Cardinality({h \in Handles : /\ handles[h].image = i
                                            /\ handles[h].next_server_release = e.point
                                            /\ comp[h] = "released"}) = 1

NoPointTwiceWitness ==
    \E h \in Handles : \E g \in Handles :
        /\ h < g
        /\ SameImage(h, g)
        /\ comp[h] = "released"
        /\ TimesDone(g, "import_acquire") = 1
        /\ {e.point : e \in timeline[handles[h].image]} = 0 .. 3

\* C18: only an acquisition changes ring bookkeeping, and it changes the
\* cursor and the stored release point of the acquired slot alone; no step of
\* image(), blocking_release_wait or submit, of the GPU or of the compositor
\* changes the cursor or a stored release point, and the three points and
\* the image of a handle never change after the acquisition.
OnlyAcquireMoves ==
    [][phase = "ready" =>
        /\ \A h \in Handles : handles'[h] = handles[h] /\ Image(h)' = Image(h)
        /\ IF Len(handles') = Len(handles) + 1
           THEN /\ \A i \in Slots : i # next_image => images'[i] = images[i]
                /\ images'[next_image].dmatex_id = images[next_image].dmatex_id
           ELSE /\ images' = images
                /\ next_image' = next_image
                /\ handles' = handles]_vars

OnlyAcquireMovesWitness ==
    /\ phase = "ready"
    /\ IMAGES >= 2
    /\ images[0].previous_release = 4
    /\ next_image = 1
    /\ \E h \in Handles : pc[h] = "returned" /\ comp[h] = "released"
    /\ \E g \in Handles : pc[g] = "blocked"

\* The per-slot state machine Released(lastPoint) -> Acquired(acquirePoint,
\* nextRelease) -> Released(nextRelease), and the state of slot i as seen
\* from the handoffs issued on it.
SlotReleased(p) == [st |-> "Released", lastPoint |-> p]

SlotAcquired(a, r) == [st |-> "Acquired", acquirePoint |-> a, nextRelease |-> r]

SlotState(i) ==
    IF LastOnSlot(i) = {}
    THEN SlotReleased(0)
    ELSE LET h == CHOOSE k \in LastOnSlot(i) : TRUE IN
         IF Outstanding(h)
         THEN SlotAcquired(handles[h].server_acquire, handles[h].next_server_release)
         ELSE SlotReleased(handles[h].next_server_release)

SlotStep(s, t) ==
    \/ s.st = "Released" /\ t = SlotAcquired(s.lastPoint + 1, s.lastPoint + 2)
    \/ s.st = "Acquired" /\ t = SlotReleased(s.nextRelease)

SlotStored(s) == IF s.st = "Acquired" THEN s.nextRelease ELSE s.lastPoint

\* C19: under the usage discipline the ring's counters refine the per-slot
\* state machine: every step leaves the state of a slot alone or takes one
\* of its two transitions, the stored release point of a slot equals
\* nextRelease while Acquired and lastPoint while Released, and at most one
\* handoff is outstanding per slot.
RefinesSlotMachine ==
    /\ [](phase = "ready" =>
            \A i \in Slots :
                /\ Cardinality(OutstandingOn(i)) <= 1
                /\ images[i].previous_release = SlotStored(SlotState(i)))
    /\ [][(phase = "ready" /\ phase' = "ready") =>
            \A i \in Slots :
                \/ SlotState(i)' = SlotState(i)
                \/ SlotStep(SlotState(i), SlotState(i)')]_vars

RefinesSlotMachineWitness ==
    /\ phase = "ready"
    /\ IMAGES >= 2
    /\ SlotState(0) = SlotAcquired(3, 4)
    /\ SlotState(1) = SlotReleased(2)

\* C14: for an image of p planes the registered plane list has max(p, 2)
\* entries, one handle per plane in plane order, and only a one-plane image
\* gets a duplicated entry.
PlaneListAtLeastTwo ==
    (call.op = "dmatex_new" /\ call.stage \in {"register", "done"}) =>
        LET p == Len(call.mem_reqs) IN
        /\ Len(call.planes) = IF p >= 2 THEN p ELSE 2
        /\ \A i \in 1 .. p : call.planes[i].dmabuf = i - 1
        /\ p >= 2 => \A i \in DOMAIN call.planes : \A j \in DOMAIN call.planes :
                        call.planes[i].dmabuf = call.planes[j].dmabuf => i = j

\* A memory type of index j suits plane k of the call.
Suits(j, k) ==
    /\ (call.mem_reqs[k] \div Pow2(j)) % 2 = 1
    /\ call.types[j + 1].device_local
    /\ ~call.types[j + 1].protected

\* C15: the memory type chosen for a plane is the lowest-index type that the
\* plane's memory_type_bits allow, that is device-local and not protected;
\* when some plane has no such type the creation fails and the image is
\* never registered.
LowestEligibleType ==
    call.op = "dmatex_new" =>
        /\ \A k \in DOMAIN call.mems :
            call.mems[k].some =>
                /\ call.mems[k].value \in 0 .. (Len(call.types) - 1)
                /\ Suits(call.mems[k].value, k)
                /\ \A j \in 0 .. (call.mems[k].value - 1) : ~Suits(j, k)
        /\ call.stage \in {"export", "register", "done"} =>
            /\ Len(call.mems) = Len(call.mem_reqs)
            /\ \A k \in DOMAIN call.mems : call.mems[k].some
        /\ (\E k \in DOMAIN call.mem_reqs : \A j \in 0 .. (Len(call.types) - 1) : ~Suits(j, k)) =>
            /\ call.stage \in {"allocate", "panicked"}
            /\ registered = <<>>

LowestEligibleTypeWitness ==
    /\ call.op = "dmatex_new"
    /\ call.stage = "done"
    /\ registered = <<call.dmatex_id>>
    /\ Len(call.types) = 2
    /\ call.types[1].device_local /\ call.types[1].protected
    /\ \E k \in DOMAIN call.mems : call.mem_reqs[k] = 3 /\ call.mems[k] = Some(1)

\* The entries taken so far that resolve to format f, in enumeration order.
ResolvingTo(f) ==
    SelectSeq(SubSeq(call.formats, 1, call.i), LAMBDA v : ResolveFormat(v) = Some(f))

\* C16: the enumeration holds one descriptor per distinct resolved format;
\* the variants of a descriptor are the (modifier, planes) pairs of the
\* entries resolving to its format, one per entry in enumeration order;
\* entries that do not resolve add nothing.
OneDescriptorPerFormat ==
    call.op = "enumerate" =>
        /\ DOMAIN call.out =
            {ResolveFormat(call.formats[k]).value :
                k \in {j \in 1 .. call.i : ResolveFormat(call.formats[j]).some}}
        /\ \A f \in DOMAIN call.out :
            /\ call.out[f].format = f
            /\ Len(call.out[f].variants) = Len(ResolvingTo(f))
            /\ \A k \in DOMAIN call.out[f].variants :
                /\ call.out[f].variants[k].modifier = ResolvingTo(f)[k].drm_modifier
                /\ call.out[f].variants[k].planes = ResolvingTo(f)[k].planes
        /\ call.stage = "done" => call.i = Len(call.formats)

OneDescriptorPerFormatWitness ==
    /\ call.op = "enumerate"
    /\ call.stage = "done"
    /\ Len(call.formats) = 2
    /\ call.formats[1].format = "Abgr8888"
    /\ call.formats[2].format = "Xbgr8888"
    /\ DOMAIN call.out = {"R8G8B8A8_SRGB"}
    /\ call.out["R8G8B8A8_SRGB"].variants = <<[modifier |-> 1, planes |-> 1], [modifier |-> 0, planes |-> 1]>>

\* makedev(major, minor) of Linux: ((major & 0xfffff000) << 32) |
\* ((major & 0xfff) << 8) | ((minor & 0xffffff00) << 12) | (minor & 0xff)
Makedev(major, minor) ==
    [i \in BitIndex |->
        CASE i <= 7 -> AsU64(minor)[i]
          [] i >= 8 /\ i <= 19 -> AsU64(major)[i - 8]
          [] i >= 20 /\ i <= 43 -> AsU64(minor)[i - 12]
          [] OTHER -> AsU64(major)[i - 32]]

\* C20: get_phys_dev_node_id returns makedev(major, minor) for every render
\* major and minor, so the id stands for one (major, minor) pair: the minor
\* and the major can be read back from it.
NodeIdIsMakedev ==
    (call.op = "get_phys_dev_node_id" /\ call.stage = "done") =>
        /\ call.out = Makedev(call.major, call.minor)
        /\ \A major \in RenderMajors : \A minor \in RenderMinors :
            call.out = Makedev(major, minor) => (major = call.major /\ minor = call.minor)
====
